---- MODULE Spec2Model ----
(***************************************************************************)
(* Group-membership reconciliation of ochami-rs: the bounded bulk member   *)
(* fetch, add_hsm_members and migrate_hsm_members of                       *)
(* src/backend_api/hsm/group/utils.rs, run against a remote group store.   *)
(*                                                                         *)
(* Node ids and group labels are strings, as in the code.  The order of    *)
(* String (used by sort) is given by the position in IdOrder.              *)
(***************************************************************************)
EXTENDS Integers, Sequences, FiniteSets, Bags, TLC

\* ------------------------------------------------------------------ bounds

\* Longest label list handed to the bulk fetch (one more than the ceiling).
MaxLabels == 11
\* Label lists up to this length are enumerated with every mix of labels;
\* longer ones repeat one label.
MaxMixed == 2
\* Longest list of node ids handed to migrate_hsm_members / add_hsm_members.
MaxMembers == 2

\* Longest group listing handed to filter_and_convert_to_map.
MaxListing == 2

\* Longest token handed to validate_api_token, in characters.
MaxToken == 4

\* ------------------------------------------------------- program constants

\* let pipe_size = 10;
pipe_size == 10

\* ------------------------------------------------------------- value sets

Callers == {1, 2}
Groups == {"g1", "g2"}
Nodes == {"x1", "x2", "x3"}
\* An id the remote service does not accept as a node id.
BadId == "bad"
Ids == Nodes \cup {BadId}
\* String order of the ids ("bad" < "x1" < "x2" < "x3").
IdOrder == <<"bad", "x1", "x2", "x3">>

Rank(x) == CHOOSE i \in 1..Len(IdOrder) : IdOrder[i] = x

\* Outcomes of one remote group read as the caller sees them:
\*   ok      Ok(vec![group]) with members.ids = Some(list)
\*   err     Err(error) returned by the http client
\*   nodata  Ok(..) without a group, a member list or ids
\*   jerr    the task ended without a value (panicked or was cancelled)
Answers == {"ok", "err", "nodata", "jerr"}

\* --------------------------------------------------------- pure functions

SeqToSet(s) == {s[i] : i \in DOMAIN s}

RECURSIVE SeqsUpTo(_, _)
SeqsUpTo(S, n) ==
  IF n = 0 THEN {<<>>}
  ELSE LET shorter == SeqsUpTo(S, n - 1)
       IN shorter \cup {Append(s, x) : s \in {t \in shorter : Len(t) = n - 1}, x \in S}

Repeat(x, n) == [i \in 1..n |-> x]

\* Vec::contains
Contains(s, x) == \E i \in DOMAIN s : s[i] = x

RECURSIVE Insert(_, _)
Insert(x, s) ==
  IF s = <<>> THEN <<x>>
  ELSE IF Rank(x) < Rank(Head(s)) THEN <<x>> \o s
  ELSE <<Head(s)>> \o Insert(x, Tail(s))

\* Vec::sort: ascending in the order of String; equal elements stay adjacent.
RECURSIVE Sort(_)
Sort(s) == IF s = <<>> THEN <<>> ELSE Insert(s[Len(s)], Sort(SubSeq(s, 1, Len(s) - 1)))

\* Vec::dedup: drops an element equal to the one right before it.
RECURSIVE Dedup(_)
Dedup(s) ==
  IF Len(s) <= 1 THEN s
  ELSE LET rest == Dedup(Tail(s))
       IN IF Head(s) = Head(rest) THEN rest ELSE <<Head(s)>> \o rest

\* Vec::retain with the predicate "keep(x)"; SelectSeq keeps the order.
RetainNotIn(s, other) == SelectSeq(s, LAMBDA x : ~Contains(other, x))

RECURSIVE SetToSortedSeq(_)
SetToSortedSeq(S) ==
  IF S = {} THEN <<>>
  ELSE LET x == CHOOSE y \in S : \A z \in S : Rank(y) <= Rank(z)
       IN <<x>> \o SetToSortedSeq(S \ {x})

RECURSIVE BagOfSeq(_)
BagOfSeq(s) == IF s = <<>> THEN EmptyBag ELSE SetToBag({Head(s)}) (+) BagOfSeq(Tail(s))

\* The member list the remote service answers for a group.
MemberList(members) == SetToSortedSeq(members)

\* ------------------------------------------------------------------ state

VARIABLES
  store,   \* the remote group store: label -> set of node ids
  reqlog,  \* mutating requests issued so far, in order
  op,      \* per caller: the call and its arguments
  pc,      \* per caller: position in the call
  fs,      \* per caller: locals of get_member_vec_from_hsm_name_vec_2
  ms,      \* per caller: locals of migrate_hsm_members / add_hsm_members
  ret      \* per caller: the returned value

vars == <<store, reqlog, op, pc, fs, ms, ret>>

NoRet == [tag |-> "None", val |-> <<>>]
ErrRet == [tag |-> "Err", val |-> <<>>]
OkRet(v) == [tag |-> "Ok", val |-> v]

\* Locals of the bulk fetch at entry: an empty vector, an empty JoinSet and a
\* semaphore of pipe_size permits.
NewFetch(labels, ctx) ==
  [labels |-> labels, ctx |-> ctx, nxt |-> 0, sem |-> pipe_size,
   running |-> EmptyBag, done |-> EmptyBag, joined |-> EmptyBag, vec |-> <<>>]

IdleFetch == NewFetch(<<>>, "none")

\* store0 is the store as it was when the call was made.
NewLocals ==
  [valid |-> "unknown", target_read |-> <<>>, parent_read |-> <<>>,
   target_vec |-> <<>>, parent_vec |-> <<>>, i |-> 0, spawned |-> 0,
   retained |-> <<>>, store0 |-> [g \in Groups |-> {}]]

EntryLocals == [NewLocals EXCEPT !.store0 = store]

IdleOp ==
  [name |-> "idle", target |-> "g1", parent |-> "g1", members |-> <<>>,
   remove |-> <<>>, listing |-> <<>>, token |-> <<>>, flag |-> FALSE, labels |-> <<>>]

\* Number of fetch tasks spawned and not yet completed.
InFlight(c) == BagCardinality(fs[c].running)

\* ------------------------------------------------------------- bulk fetch

\* Arc::clone(&sem).acquire_owned().await returns once a permit is free.
\* (faulty variant: no gate)
PermitAlways(c) == TRUE

PermitAvailable(c) == fs[c].sem > 0

\* One turn of the for loop: take a permit, spawn the task that owns it.
Spawn(c) ==
  /\ pc[c] = "spawn"
  /\ fs[c].nxt < Len(fs[c].labels)
  /\ PermitAvailable(c)
  /\ fs' = [fs EXCEPT ![c].nxt = @ + 1,
                      ![c].sem = @ - 1,
                      ![c].running = @ (+) SetToBag({fs[c].labels[fs[c].nxt + 1]})]
  /\ ms' = [ms EXCEPT ![c].spawned = @ + 1]
  /\ UNCHANGED <<store, reqlog, op, pc, ret>>

\* The for loop is exhausted: go on to the join loop.
SpawnDone(c) ==
  /\ pc[c] = "spawn"
  /\ fs[c].nxt = Len(fs[c].labels)
  /\ pc' = [pc EXCEPT ![c] = "join"]
  /\ UNCHANGED <<store, reqlog, op, fs, ms, ret>>

\* A running task ends: its result waits in the JoinSet and its permit is
\* dropped.  The remote read answers with the store's members at that time.
\* (faulty variants: the task empties the group it read; the task keeps its
\* permit)
CompleteMutates(c) ==
  /\ pc[c] \in {"spawn", "join"}
  /\ \E g \in BagToSet(fs[c].running), a \in Answers :
       LET r == [label |-> g, ans |-> a,
                 ids |-> IF a = "ok" THEN MemberList(store[g]) ELSE <<>>]
       IN /\ fs' = [fs EXCEPT ![c].running = @ (-) SetToBag({g}),
                              ![c].sem = @ + 1,
                              ![c].done = @ (+) SetToBag({r})]
          /\ store' = [store EXCEPT ![g] = {}]
          /\ reqlog' = Append(reqlog, [caller |-> c, kind |-> "delete_group", group |-> g,
                                       node |-> "", ok |-> TRUE])
  /\ UNCHANGED <<op, pc, ms, ret>>

CompleteKeepsPermit(c) ==
  /\ pc[c] \in {"spawn", "join"}
  /\ \E g \in BagToSet(fs[c].running), a \in Answers :
       LET r == [label |-> g, ans |-> a,
                 ids |-> IF a = "ok" THEN MemberList(store[g]) ELSE <<>>]
       IN fs' = [fs EXCEPT ![c].running = @ (-) SetToBag({g}),
                           ![c].done = @ (+) SetToBag({r})]
  /\ UNCHANGED <<store, reqlog, op, pc, ms, ret>>

Complete(c) ==
  /\ pc[c] \in {"spawn", "join"}
  /\ \E g \in BagToSet(fs[c].running), a \in Answers :
       LET r == [label |-> g, ans |-> a,
                 ids |-> IF a = "ok" THEN MemberList(store[g]) ELSE <<>>]
       IN fs' = [fs EXCEPT ![c].running = @ (-) SetToBag({g}),
                           ![c].sem = @ + 1,
                           ![c].done = @ (+) SetToBag({r})]
  /\ UNCHANGED <<store, reqlog, op, pc, ms, ret>>

Results(c, a) == {r \in BagToSet(fs[c].done) : r.ans = a}

Take(c, r) ==
  [fs EXCEPT ![c].done = @ (-) SetToBag({r}), ![c].joined = @ (+) SetToBag({r})]

\* Ok(Ok(hsm_group_vec)): the group's ids are appended to the vector.
\* (faulty variant: the vector is overwritten instead of appended to)
JoinOkReplaces(c) ==
  /\ pc[c] = "join"
  /\ \E r \in Results(c, "ok") :
       fs' = [Take(c, r) EXCEPT ![c].vec = r.ids]
  /\ UNCHANGED <<store, reqlog, op, pc, ms, ret>>

JoinOk(c) ==
  /\ pc[c] = "join"
  /\ \E r \in Results(c, "ok") :
       fs' = [Take(c, r) EXCEPT ![c].vec = @ \o r.ids]
  /\ UNCHANGED <<store, reqlog, op, pc, ms, ret>>

\* Ok(Err(error)) => log::warn!: nothing else happens.
\* (faulty variant: a remote error ends the call like a join error)
JoinRemoteErrAborts(c) ==
  /\ pc[c] = "join"
  /\ \E r \in Results(c, "err") :
       fs' = [Take(c, r) EXCEPT ![c].running = EmptyBag, ![c].done = EmptyBag]
  /\ pc' = [pc EXCEPT ![c] = "done"]
  /\ ret' = [ret EXCEPT ![c] = ErrRet]
  /\ UNCHANGED <<store, reqlog, op, ms>>

JoinRemoteErr(c) ==
  /\ pc[c] = "join"
  /\ \E r \in Results(c, "err") : fs' = Take(c, r)
  /\ UNCHANGED <<store, reqlog, op, pc, ms, ret>>

\* Err(error) => return Err(..): the JoinSet is dropped, which aborts what is
\* left in it.  In migrate_hsm_members the `?` hands the error on.
\* (faulty variant: a join error is passed over like a remote error)
JoinErrorContinues(c) ==
  /\ pc[c] = "join"
  /\ \E r \in Results(c, "jerr") : fs' = Take(c, r)
  /\ UNCHANGED <<store, reqlog, op, pc, ms, ret>>

JoinError(c) ==
  /\ pc[c] = "join"
  /\ \E r \in Results(c, "jerr") :
       fs' = [Take(c, r) EXCEPT ![c].running = EmptyBag, ![c].done = EmptyBag]
  /\ pc' = [pc EXCEPT ![c] = "done"]
  /\ ret' = [ret EXCEPT ![c] = ErrRet]
  /\ UNCHANGED <<store, reqlog, op, ms>>

\* first().unwrap() / members.unwrap() / ids.unwrap() on an answer without
\* data panics in the caller.
JoinNoData(c) ==
  /\ pc[c] = "join"
  /\ \E r \in Results(c, "nodata") :
       fs' = [Take(c, r) EXCEPT ![c].running = EmptyBag, ![c].done = EmptyBag]
  /\ pc' = [pc EXCEPT ![c] = "panicked"]
  /\ UNCHANGED <<store, reqlog, op, ms, ret>>

\* join_next() yields None: the JoinSet is empty.
JoinSetEmpty(c) == fs[c].running = EmptyBag /\ fs[c].done = EmptyBag

\* Ok(hsm_group_member_vec) of the bulk fetch called on its own.
BulkReturn(c) ==
  /\ pc[c] = "join"
  /\ fs[c].ctx = "bulk"
  /\ JoinSetEmpty(c)
  /\ pc' = [pc EXCEPT ![c] = "done"]
  /\ ret' = [ret EXCEPT ![c] = OkRet(fs[c].vec)]
  /\ UNCHANGED <<store, reqlog, op, fs, ms>>

FetchStep(c) ==
  \/ Spawn(c)
  \/ SpawnDone(c)
  \/ Complete(c)
  \/ JoinOk(c)
  \/ JoinRemoteErr(c)
  \/ JoinError(c)
  \/ JoinNoData(c)

\* ------------------------------------------------------ the remote store

\* validate_xnames_format_and_membership_agaisnt_single_hsm: every id is a
\* well-formed node id and a member of the parent group.
ValidXnames(members, parent) ==
  \A i \in DOMAIN members : members[i] \in Nodes /\ members[i] \in store[parent]

\* The service takes only node ids; a request it rejects changes nothing.
Accepts(x, ok) == ok => x \in Nodes

\* post_members: idempotent add of one member.
AfterPost(g, x, ok) == IF ok THEN [store EXCEPT ![g] = @ \cup {x}] ELSE store

\* delete_member: idempotent remove of one member.
AfterDelete(g, x, ok) == IF ok THEN [store EXCEPT ![g] = @ \ {x}] ELSE store

Request(c, kind, g, x, ok) == [caller |-> c, kind |-> kind, group |-> g, node |-> x, ok |-> ok]

\* The mutating requests a caller has issued, and whether all succeeded.
ReqsBy(c) == SelectSeq(reqlog, LAMBDA e : e.caller = c)

AllOk(reqs) == \A j \in DOMAIN reqs : reqs[j].ok

\* ------------------------------------------------------ migrate_hsm_members

\* target_hsm_group_member_vec.extend(new members); sort(); dedup()
\* (faulty variants: no dedup; no sort)
TargetNewNoDedup(fetched, members) == Sort(fetched \o members)
TargetNewNoSort(fetched, members) == Dedup(fetched \o members)
TargetNew(fetched, members) == Dedup(Sort(fetched \o members))

\* parent_hsm_group_member_vec.retain(not in the target vector); sort(); dedup()
\* (faulty variants: subtract only the moving nodes; subtract nothing)
ParentNewAgainstMoving(fetched, target_vec, members) ==
  Dedup(Sort(RetainNotIn(fetched, members)))
ParentNewNoRetain(fetched, target_vec, members) == Dedup(Sort(fetched))
ParentNew(fetched, target_vec, members) == Dedup(Sort(RetainNotIn(fetched, target_vec)))

\* if !validate_xnames_format_and_membership_agaisnt_single_hsm(..) { return Err }
\* (faulty variant: the verdict is ignored)
RejectedNever(verdict) == FALSE

Rejected(verdict) == ~verdict

\* if !nodryrun { print the two groups } else { apply }
\* (faulty variant: the flag is read the other way round)
MigrateDryRunInverted(c) == op[c].flag

MigrateDryRun(c) == ~op[c].flag

\* Ok((target_hsm_group_member_vec, parent_hsm_group_member_vec))
\* (faulty variant: the two groups as they are in the store at the return)
MigratePairFromStore(c) ==
  <<MemberList(store[op[c].target]), MemberList(store[op[c].parent])>>

MigratePair(c) == <<ms[c].target_vec, ms[c].parent_vec>>

\* The validation at entry; on success the read of the target group starts.
MigValidate(c) ==
  /\ pc[c] = "mig_validate"
  /\ LET verdict == ValidXnames(op[c].members, op[c].parent)
     IN IF Rejected(verdict)
        THEN /\ pc' = [pc EXCEPT ![c] = "done"]
             /\ ret' = [ret EXCEPT ![c] = ErrRet]
             /\ ms' = [ms EXCEPT ![c].valid = IF verdict THEN "yes" ELSE "no"]
             /\ UNCHANGED fs
        ELSE /\ pc' = [pc EXCEPT ![c] = "spawn"]
             /\ fs' = [fs EXCEPT ![c] = NewFetch(<<op[c].target>>, "target")]
             /\ ms' = [ms EXCEPT ![c].valid = IF verdict THEN "yes" ELSE "no"]
             /\ UNCHANGED ret
  /\ UNCHANGED <<store, reqlog, op>>

\* The target read returned Ok: merge, then start the read of the parent group.
\* (faulty variant: the requests start without the read of the parent group)
MigTargetReadApplies(c) ==
  /\ pc[c] = "join"
  /\ fs[c].ctx = "target"
  /\ JoinSetEmpty(c)
  /\ ms' = [ms EXCEPT ![c].target_read = fs[c].vec,
                      ![c].target_vec = TargetNew(fs[c].vec, op[c].members),
                      ![c].i = 1]
  /\ pc' = [pc EXCEPT ![c] = "mig_post"]
  /\ UNCHANGED <<store, reqlog, op, fs, ret>>

MigTargetRead(c) ==
  /\ pc[c] = "join"
  /\ fs[c].ctx = "target"
  /\ JoinSetEmpty(c)
  /\ ms' = [ms EXCEPT ![c].target_read = fs[c].vec,
                      ![c].target_vec = TargetNew(fs[c].vec, op[c].members)]
  /\ fs' = [fs EXCEPT ![c] = NewFetch(<<op[c].parent>>, "parent")]
  /\ pc' = [pc EXCEPT ![c] = "spawn"]
  /\ UNCHANGED <<store, reqlog, op, ret>>

\* The parent read returned Ok: subtract, then report or apply.
MigParentRead(c) ==
  /\ pc[c] = "join"
  /\ fs[c].ctx = "parent"
  /\ JoinSetEmpty(c)
  /\ ms' = [ms EXCEPT ![c].parent_read = fs[c].vec,
                      ![c].parent_vec = ParentNew(fs[c].vec, ms[c].target_vec, op[c].members),
                      ![c].i = 1]
  /\ pc' = [pc EXCEPT ![c] = IF MigrateDryRun(c) THEN "mig_report" ELSE "mig_post"]
  /\ UNCHANGED <<store, reqlog, op, fs, ret>>

\* Dry run: the two groups are printed and the pair is returned.
MigReport(c) ==
  /\ pc[c] = "mig_report"
  /\ pc' = [pc EXCEPT ![c] = "done"]
  /\ ret' = [ret EXCEPT ![c] = OkRet(MigratePair(c))]
  /\ UNCHANGED <<store, reqlog, op, fs, ms>>

\* let _ = post_members(target, xname).await
\* (faulty variants: the add is left out; a failed add ends the call; the add
\* writes the whole computed member list of the target group)
MigPostSkipped(c) ==
  /\ pc[c] = "mig_post"
  /\ ms[c].i <= Len(op[c].members)
  /\ pc' = [pc EXCEPT ![c] = "mig_delete"]
  /\ UNCHANGED <<store, reqlog, op, fs, ms, ret>>

MigPostPropagates(c) ==
  /\ pc[c] = "mig_post"
  /\ ms[c].i <= Len(op[c].members)
  /\ \E ok \in BOOLEAN :
       LET x == op[c].members[ms[c].i]
       IN /\ Accepts(x, ok)
          /\ store' = AfterPost(op[c].target, x, ok)
          /\ reqlog' = Append(reqlog, Request(c, "post_members", op[c].target, x, ok))
          /\ pc' = [pc EXCEPT ![c] = IF ok THEN "mig_delete" ELSE "done"]
          /\ ret' = [ret EXCEPT ![c] = IF ok THEN @ ELSE ErrRet]
  /\ UNCHANGED <<op, fs, ms>>

MigPostOverwrites(c) ==
  /\ pc[c] = "mig_post"
  /\ ms[c].i <= Len(op[c].members)
  /\ \E ok \in BOOLEAN :
       LET x == op[c].members[ms[c].i]
       IN /\ Accepts(x, ok)
          /\ store' = IF ok THEN [store EXCEPT ![op[c].target] = SeqToSet(ms[c].target_vec)]
                      ELSE store
          /\ reqlog' = Append(reqlog, Request(c, "post_members", op[c].target, x, ok))
  /\ pc' = [pc EXCEPT ![c] = "mig_delete"]
  /\ UNCHANGED <<op, fs, ms, ret>>

MigPost(c) ==
  /\ pc[c] = "mig_post"
  /\ ms[c].i <= Len(op[c].members)
  /\ \E ok \in BOOLEAN :
       LET x == op[c].members[ms[c].i]
       IN /\ Accepts(x, ok)
          /\ store' = AfterPost(op[c].target, x, ok)
          /\ reqlog' = Append(reqlog, Request(c, "post_members", op[c].target, x, ok))
  /\ pc' = [pc EXCEPT ![c] = "mig_delete"]
  /\ UNCHANGED <<op, fs, ms, ret>>

\* let _ = delete_member(parent, xname).await; then the next xname
\* (faulty variant: the member is removed from the target group)
MigDeleteFromTarget(c) ==
  /\ pc[c] = "mig_delete"
  /\ \E ok \in BOOLEAN :
       LET x == op[c].members[ms[c].i]
       IN /\ Accepts(x, ok)
          /\ store' = AfterDelete(op[c].target, x, ok)
          /\ reqlog' = Append(reqlog, Request(c, "delete_member", op[c].target, x, ok))
  /\ ms' = [ms EXCEPT ![c].i = @ + 1]
  /\ pc' = [pc EXCEPT ![c] = "mig_post"]
  /\ UNCHANGED <<op, fs, ret>>

MigDelete(c) ==
  /\ pc[c] = "mig_delete"
  /\ \E ok \in BOOLEAN :
       LET x == op[c].members[ms[c].i]
       IN /\ Accepts(x, ok)
          /\ store' = AfterDelete(op[c].parent, x, ok)
          /\ reqlog' = Append(reqlog, Request(c, "delete_member", op[c].parent, x, ok))
  /\ ms' = [ms EXCEPT ![c].i = @ + 1]
  /\ pc' = [pc EXCEPT ![c] = "mig_post"]
  /\ UNCHANGED <<op, fs, ret>>

\* The loop is over: Ok((target vector, parent vector)).
MigReturn(c) ==
  /\ pc[c] = "mig_post"
  /\ ms[c].i > Len(op[c].members)
  /\ pc' = [pc EXCEPT ![c] = "done"]
  /\ ret' = [ret EXCEPT ![c] = OkRet(MigratePair(c))]
  /\ UNCHANGED <<store, reqlog, op, fs, ms>>

MigrateStep(c) ==
  \/ MigValidate(c)
  \/ MigTargetRead(c)
  \/ MigParentRead(c)
  \/ MigReport(c)
  \/ MigPost(c)
  \/ MigDelete(c)
  \/ MigReturn(c)

\* ---------------------------------------------------------- add_hsm_members

\* if dryrun { print } else { post each member }
AddDryRun(c) == op[c].flag

\* get_members(..).await.map(|member| member.ids.unwrap())?, then the merge.
\* (faulty variant: a failed read is taken for a group without members)
AddReadFailureAsEmpty(c) ==
  /\ pc[c] = "add_read"
  /\ \E a \in {"ok", "err", "nodata"} :
       CASE a \in {"ok", "err"} ->
              LET fetched == IF a = "ok" THEN MemberList(store[op[c].target]) ELSE <<>>
              IN /\ ms' = [ms EXCEPT ![c].target_read = fetched,
                                     ![c].target_vec = TargetNew(fetched, op[c].members),
                                     ![c].i = 1]
                 /\ pc' = [pc EXCEPT ![c] = IF AddDryRun(c) THEN "add_report" ELSE "add_post"]
                 /\ UNCHANGED ret
         [] a = "nodata" ->
              /\ pc' = [pc EXCEPT ![c] = "panicked"]
              /\ UNCHANGED <<ms, ret>>
  /\ UNCHANGED <<store, reqlog, op, fs>>

AddRead(c) ==
  /\ pc[c] = "add_read"
  /\ \E a \in {"ok", "err", "nodata"} :
       CASE a = "ok" ->
              /\ ms' = [ms EXCEPT ![c].target_read = MemberList(store[op[c].target]),
                                  ![c].target_vec =
                                     TargetNew(MemberList(store[op[c].target]), op[c].members),
                                  ![c].i = 1]
              /\ pc' = [pc EXCEPT ![c] = IF AddDryRun(c) THEN "add_report" ELSE "add_post"]
              /\ UNCHANGED ret
         [] a = "err" ->
              /\ pc' = [pc EXCEPT ![c] = "done"]
              /\ ret' = [ret EXCEPT ![c] = ErrRet]
              /\ UNCHANGED ms
         [] a = "nodata" ->
              /\ pc' = [pc EXCEPT ![c] = "panicked"]
              /\ UNCHANGED <<ms, ret>>
  /\ UNCHANGED <<store, reqlog, op, fs>>

\* Dry run: the members are printed and the merged list is returned.
AddReport(c) ==
  /\ pc[c] = "add_report"
  /\ pc' = [pc EXCEPT ![c] = "done"]
  /\ ret' = [ret EXCEPT ![c] = OkRet(ms[c].target_vec)]
  /\ UNCHANGED <<store, reqlog, op, fs, ms>>

\* let _ = post_members(group_label, xname).await; then the next xname
AddPost(c) ==
  /\ pc[c] = "add_post"
  /\ ms[c].i <= Len(op[c].members)
  /\ \E ok \in BOOLEAN :
       LET x == op[c].members[ms[c].i]
       IN /\ Accepts(x, ok)
          /\ store' = AfterPost(op[c].target, x, ok)
          /\ reqlog' = Append(reqlog, Request(c, "post_members", op[c].target, x, ok))
  /\ ms' = [ms EXCEPT ![c].i = @ + 1]
  /\ UNCHANGED <<op, pc, fs, ret>>

\* The loop is over: Ok(merged list).
AddReturn(c) ==
  /\ pc[c] = "add_post"
  /\ ms[c].i > Len(op[c].members)
  /\ pc' = [pc EXCEPT ![c] = "done"]
  /\ ret' = [ret EXCEPT ![c] = OkRet(ms[c].target_vec)]
  /\ UNCHANGED <<store, reqlog, op, fs, ms>>

AddStep(c) ==
  \/ AddRead(c)
  \/ AddReport(c)
  \/ AddPost(c)
  \/ AddReturn(c)

\* ------------------------------------------------ update_hsm_group_members

\* group_members.retain(|xname| group_members_to_delete.contains(xname))
Retained(group_members, group_members_to_delete) ==
  SelectSeq(group_members, LAMBDA xname : Contains(group_members_to_delete, xname))

\* get_one(..).await?, members.unwrap().ids.unwrap(), the retain, then one
\* push for each xname of group_members_to_add.
UpdRead(c) ==
  /\ pc[c] = "upd_read"
  /\ \E a \in {"ok", "err", "nodata"} :
       CASE a = "ok" ->
              LET group_members == MemberList(store[op[c].target])
              IN /\ ms' = [ms EXCEPT ![c].target_read = group_members,
                                     ![c].retained = Retained(group_members, op[c].remove),
                                     ![c].target_vec =
                                        Retained(group_members, op[c].remove) \o op[c].members,
                                     ![c].i = 1]
                 /\ pc' = [pc EXCEPT ![c] = "upd_return"]
                 /\ UNCHANGED ret
         [] a = "err" ->
              /\ pc' = [pc EXCEPT ![c] = "done"]
              /\ ret' = [ret EXCEPT ![c] = ErrRet]
              /\ UNCHANGED ms
         [] a = "nodata" ->
              /\ pc' = [pc EXCEPT ![c] = "panicked"]
              /\ UNCHANGED <<ms, ret>>
  /\ UNCHANGED <<store, reqlog, op, fs>>

\* Ok(()): group_members is dropped, no request carries it to the service.
UpdReturn(c) ==
  /\ pc[c] = "upd_return"
  /\ pc' = [pc EXCEPT ![c] = "done"]
  /\ ret' = [ret EXCEPT ![c] = OkRet(<<>>)]
  /\ UNCHANGED <<store, reqlog, op, fs, ms>>

UpdateStep(c) ==
  \/ UpdRead(c)
  \/ UpdReturn(c)

\* --------------------------------------------- one migrate or add call

MemberArgs == SeqsUpTo(Ids, MaxMembers)

MigrateCalls ==
  {[name |-> "migrate", target |-> t, parent |-> p, members |-> m,
    remove |-> <<>>, listing |-> <<>>, token |-> <<>>, flag |-> f, labels |-> <<>>] : t \in Groups, p \in Groups, m \in MemberArgs, f \in BOOLEAN}

AddCalls ==
  {[name |-> "add", target |-> t, parent |-> t, members |-> m,
    remove |-> <<>>, listing |-> <<>>, token |-> <<>>, flag |-> f, labels |-> <<>>] : t \in Groups, m \in MemberArgs, f \in BOOLEAN}

EntryPc(call) ==
  CASE call.name = "migrate" -> "mig_validate"
    [] call.name = "add" -> "add_read"
    [] call.name = "fetch" -> "spawn"
    [] call.name = "update" -> "upd_read"
    [] call.name = "filter" -> "filter"
    [] call.name = "add_members" -> "add_members"
    [] call.name = "validate_api_token" -> "validate"
    [] OTHER -> "idle"

Init ==
  /\ store \in [Groups -> SUBSET Nodes]
  /\ reqlog = <<>>
  /\ \E call \in MigrateCalls \cup AddCalls :
       op = [c \in Callers |-> IF c = 1 THEN call ELSE IdleOp]
  /\ pc = [c \in Callers |-> EntryPc(op[c])]
  /\ fs = [c \in Callers |-> IdleFetch]
  /\ ms = [c \in Callers |-> EntryLocals]
  /\ ret = [c \in Callers |-> NoRet]

Next == \E c \in Callers : FetchStep(c) \/ MigrateStep(c) \/ AddStep(c)

Spec == Init /\ [][Next]_vars

\* One call of migrate_hsm_members on its own.
InitMigrate ==
  /\ store \in [Groups -> SUBSET Nodes]
  /\ reqlog = <<>>
  /\ \E call \in MigrateCalls :
       op = [c \in Callers |-> IF c = 1 THEN call ELSE IdleOp]
  /\ pc = [c \in Callers |-> EntryPc(op[c])]
  /\ fs = [c \in Callers |-> IdleFetch]
  /\ ms = [c \in Callers |-> EntryLocals]
  /\ ret = [c \in Callers |-> NoRet]

NextMigrate == \E c \in Callers : FetchStep(c) \/ MigrateStep(c)

SpecMigrate == InitMigrate /\ [][NextMigrate]_vars

\* One call of add_hsm_members on its own.
InitAdd ==
  /\ store \in [Groups -> SUBSET Nodes]
  /\ reqlog = <<>>
  /\ \E call \in AddCalls :
       op = [c \in Callers |-> IF c = 1 THEN call ELSE IdleOp]
  /\ pc = [c \in Callers |-> EntryPc(op[c])]
  /\ fs = [c \in Callers |-> IdleFetch]
  /\ ms = [c \in Callers |-> EntryLocals]
  /\ ret = [c \in Callers |-> NoRet]

NextAdd == \E c \in Callers : AddStep(c)

SpecAdd == InitAdd /\ [][NextAdd]_vars

\* Two calls of migrate_hsm_members in apply mode that run at the same time
\* from parent g2 to target g1, with moving nodes that no call shares.  Every
\* moving node is a member of the parent; x3 may be in both groups.
ConcurrentMoves ==
  {<<<<"x1">>, <<"x2">>>>, <<<<"x1", "x3">>, <<"x2">>>>, <<<<"x2">>, <<"x3", "x1">>>>}

ConcurrentStores ==
  {[g \in Groups |-> IF g = "g2" THEN Nodes ELSE members] : members \in SUBSET {"x3"}}

ConcurrentCall(moving) ==
  [name |-> "migrate", target |-> "g1", parent |-> "g2", members |-> moving,
   remove |-> <<>>, listing |-> <<>>, token |-> <<>>, flag |-> TRUE, labels |-> <<>>]

InitConcurrent ==
  /\ store \in ConcurrentStores
  /\ reqlog = <<>>
  /\ \E moves \in ConcurrentMoves :
       op = [c \in Callers |-> ConcurrentCall(moves[c])]
  /\ pc = [c \in Callers |-> EntryPc(op[c])]
  /\ fs = [c \in Callers |-> IdleFetch]
  /\ ms = [c \in Callers |-> EntryLocals]
  /\ ret = [c \in Callers |-> NoRet]

NextConcurrent ==
  \E c \in Callers :
    \/ FetchStep(c)
    \/ MigValidate(c)
    \/ MigTargetRead(c)
    \/ MigParentRead(c)
    \/ MigPost(c)
    \/ MigDelete(c)
    \/ MigReturn(c)

SpecConcurrent == InitConcurrent /\ [][NextConcurrent]_vars

\* -------------------------------------- calls through the Ochami backend

\* Ochami::migrate_group_members passes `true` for nodryrun.
MigrateGroupMembersNoDryRun == TRUE

\* Ochami::migrate_group_members(token, target, parent, new_target_hsm_members)
MigrateGroupMembersCalls ==
  {[name |-> "migrate", target |-> t, parent |-> p, members |-> m,
    remove |-> <<>>, listing |-> <<>>, token |-> <<>>, flag |-> MigrateGroupMembersNoDryRun, labels |-> <<>>] :
      t \in Groups, p \in Groups, m \in MemberArgs}

\* Ochami::update_group_members(token, group_name, members_to_remove, members_to_add)
UpdateGroupMembersCalls ==
  {[name |-> "update", target |-> g, parent |-> g, members |-> a,
    remove |-> d, listing |-> <<>>, token |-> <<>>, flag |-> FALSE, labels |-> <<>>] :
      g \in Groups, d \in MemberArgs, a \in MemberArgs}

InitBackend ==
  /\ store \in [Groups -> SUBSET Nodes]
  /\ reqlog = <<>>
  /\ \E call \in MigrateGroupMembersCalls \cup UpdateGroupMembersCalls :
       op = [c \in Callers |-> IF c = 1 THEN call ELSE IdleOp]
  /\ pc = [c \in Callers |-> EntryPc(op[c])]
  /\ fs = [c \in Callers |-> IdleFetch]
  /\ ms = [c \in Callers |-> EntryLocals]
  /\ ret = [c \in Callers |-> NoRet]

NextBackend ==
  \E c \in Callers :
    \/ FetchStep(c)
    \/ MigValidate(c)
    \/ MigTargetRead(c)
    \/ MigParentRead(c)
    \/ MigPost(c)
    \/ MigDelete(c)
    \/ MigReturn(c)
    \/ UpdateStep(c)

SpecBackend == InitBackend /\ [][NextBackend]_vars

\* ------------------------------------------- Ochami::add_members_to_group

\* hsm::group::utils::add_member: adds one member to the group and returns
\* the members the group then has.
AddMemberSol(g, x) == MemberList(store[g] \cup {x})

\* One turn of `for new_member in new_members`: sol = add_member(..).await?
\* ms[c].i counts the members already added.
\* (faulty variant: a failed add is passed over and the loop goes on)
AddMemberTurnContinues(c) ==
  /\ pc[c] = "add_members"
  /\ ms[c].i < Len(op[c].members)
  /\ \E ok \in BOOLEAN :
       LET x == op[c].members[ms[c].i + 1]
       IN /\ Accepts(x, ok)
          /\ store' = AfterPost(op[c].target, x, ok)
          /\ reqlog' = Append(reqlog, Request(c, "add_member", op[c].target, x, ok))
          /\ ms' = [ms EXCEPT ![c].i = @ + 1,
                              ![c].target_vec = IF ok THEN AddMemberSol(op[c].target, x) ELSE @]
  /\ UNCHANGED <<op, pc, fs, ret>>

AddMemberTurn(c) ==
  /\ pc[c] = "add_members"
  /\ ms[c].i < Len(op[c].members)
  /\ \E ok \in BOOLEAN :
       LET x == op[c].members[ms[c].i + 1]
       IN /\ Accepts(x, ok)
          /\ store' = AfterPost(op[c].target, x, ok)
          /\ reqlog' = Append(reqlog, Request(c, "add_member", op[c].target, x, ok))
          /\ IF ok
             THEN /\ ms' = [ms EXCEPT ![c].i = @ + 1,
                                      ![c].target_vec = AddMemberSol(op[c].target, x)]
                  /\ UNCHANGED <<pc, ret>>
             ELSE /\ pc' = [pc EXCEPT ![c] = "done"]
                  /\ ret' = [ret EXCEPT ![c] = ErrRet]
                  /\ UNCHANGED ms
  /\ UNCHANGED <<op, fs>>

\* The loop is over: Ok(sol).
AddMembersReturn(c) ==
  /\ pc[c] = "add_members"
  /\ ms[c].i = Len(op[c].members)
  /\ pc' = [pc EXCEPT ![c] = "done"]
  /\ ret' = [ret EXCEPT ![c] = OkRet(ms[c].target_vec)]
  /\ UNCHANGED <<store, reqlog, op, fs, ms>>

AddMembersCalls ==
  {[IdleOp EXCEPT !.name = "add_members", !.target = g, !.parent = g, !.members = m] :
     g \in Groups, m \in MemberArgs}

InitAddMembers ==
  /\ store \in [Groups -> SUBSET Nodes]
  /\ reqlog = <<>>
  /\ \E call \in AddMembersCalls :
       op = [c \in Callers |-> IF c = 1 THEN call ELSE IdleOp]
  /\ pc = [c \in Callers |-> EntryPc(op[c])]
  /\ fs = [c \in Callers |-> IdleFetch]
  /\ ms = [c \in Callers |-> EntryLocals]
  /\ ret = [c \in Callers |-> NoRet]

NextAddMembers == \E c \in Callers : AddMemberTurn(c) \/ AddMembersReturn(c)

SpecAddMembers == InitAddMembers /\ [][NextAddMembers]_vars

\* ------------------------------------- the same call made a second time

\* The call has returned Ok, each of its requests succeeded and each of its
\* reads returned the members the group had.
CleanRun(c) ==
  /\ pc[c] = "done"
  /\ ret[c].tag = "Ok"
  /\ AllOk(ReqsBy(c))
  /\ ms[c].target_read = MemberList(ms[c].store0[op[c].target])
  /\ op[c].name = "migrate" => ms[c].parent_read = MemberList(ms[c].store0[op[c].parent])

\* Caller 2 repeats the call of caller 1 once that call has ended cleanly.
StartSecond(c) ==
  /\ pc[c] = "waiting"
  /\ CleanRun(1)
  /\ pc' = [pc EXCEPT ![c] = EntryPc(op[c])]
  /\ ms' = [ms EXCEPT ![c] = EntryLocals]
  /\ UNCHANGED <<store, reqlog, op, fs, ret>>

\* Calls whose ids are all node ids: no other call can end cleanly.
RerunCalls == {call \in MigrateCalls \cup AddCalls : SeqToSet(call.members) \subseteq Nodes}

InitRerun ==
  /\ store \in [Groups -> SUBSET Nodes]
  /\ reqlog = <<>>
  /\ \E call \in RerunCalls : op = [c \in Callers |-> call]
  /\ pc = [c \in Callers |-> IF c = 1 THEN EntryPc(op[c]) ELSE "waiting"]
  /\ fs = [c \in Callers |-> IdleFetch]
  /\ ms = [c \in Callers |-> EntryLocals]
  /\ ret = [c \in Callers |-> NoRet]

NextRerun ==
  \E c \in Callers : FetchStep(c) \/ MigrateStep(c) \/ AddStep(c) \/ StartSecond(c)

SpecRerun == InitRerun /\ [][NextRerun]_vars

\* ------------------------------------------------- the bulk fetch on its own

\* A store in which the two groups overlap.
FetchStore == [g \in Groups |-> IF g = "g1" THEN {"x1", "x2"} ELSE {"x2", "x3"}]

LabelLists ==
  SeqsUpTo(Groups, MaxMixed)
    \cup {Repeat(g, n) : g \in Groups, n \in (MaxMixed + 1)..MaxLabels}

InitFetch ==
  /\ store = FetchStore
  /\ reqlog = <<>>
  /\ \E ls \in LabelLists :
       /\ op = [c \in Callers |-> IF c = 1 THEN [IdleOp EXCEPT !.name = "fetch", !.labels = ls]
                                  ELSE IdleOp]
       /\ fs = [c \in Callers |-> IF c = 1 THEN NewFetch(ls, "bulk") ELSE IdleFetch]
  /\ pc = [c \in Callers |-> IF c = 1 THEN "spawn" ELSE "idle"]
  /\ ms = [c \in Callers |-> EntryLocals]
  /\ ret = [c \in Callers |-> NoRet]

NextFetch == \E c \in Callers : FetchStep(c) \/ BulkReturn(c)

SpecFetch == InitFetch /\ [][NextFetch]_vars

\* The steps of the calling task itself: the for loop, the join loop and the
\* return.  The runtime keeps polling the caller, so a step that stays
\* possible is taken.
CallerStep(c) ==
  \/ Spawn(c)
  \/ SpawnDone(c)
  \/ JoinOk(c)
  \/ JoinRemoteErr(c)
  \/ JoinError(c)
  \/ JoinNoData(c)
  \/ BulkReturn(c)

\* The bulk fetch with a remote service that may leave a call unanswered: the
\* task awaits http_client::get and nothing else ends it.
SpecFetchHang == SpecFetch /\ WF_vars(\E c \in Callers : CallerStep(c))

\* The bulk fetch with a remote service that answers every call in the end.
SpecFetchLive == SpecFetchHang /\ WF_vars(\E c \in Callers : Complete(c))

\* ------------------------------------------------ filter_and_convert_to_map

\* A Group of the listing: its label, members: Option<Members> and
\* Members.ids: Option<Vec<String>>.
ListingIds == {<<>>, <<"x1">>, <<"x3", "x2">>}

GroupValues ==
  {[label |-> l, has_members |-> FALSE, has_ids |-> FALSE, ids |-> <<>>] : l \in Groups}
    \cup {[label |-> l, has_members |-> TRUE, has_ids |-> FALSE, ids |-> <<>>] : l \in Groups}
    \cup {[label |-> l, has_members |-> TRUE, has_ids |-> TRUE, ids |-> v] :
            l \in Groups, v \in ListingIds}

\* members.and_then(|members| Some(members.ids.unwrap_or_default()))
MemberIds(hsm_group) == IF hsm_group.has_ids THEN hsm_group.ids ELSE <<>>

\* hsm_group_map.entry(label).or_insert(ids): a label already present keeps
\* its value.
OrInsert(hsm_group_map, label, ids) ==
  [l \in DOMAIN hsm_group_map \cup {label} |->
     IF l \in DOMAIN hsm_group_map THEN hsm_group_map[l] ELSE ids]

\* The loop over hsm_group_vec; the unwrap() of a wanted group without
\* members panics, also when its label is already in the map (the argument of
\* or_insert is evaluated first).
RECURSIVE FilterLoop(_, _, _)
FilterLoop(hsm_name_vec, hsm_group_vec, hsm_group_map) ==
  IF hsm_group_vec = <<>>
  THEN [panicked |-> FALSE, map |-> hsm_group_map]
  ELSE LET hsm_group == Head(hsm_group_vec)
       IN IF Contains(hsm_name_vec, hsm_group.label)
          THEN IF hsm_group.has_members
               THEN FilterLoop(hsm_name_vec, Tail(hsm_group_vec),
                               OrInsert(hsm_group_map, hsm_group.label, MemberIds(hsm_group)))
               ELSE [panicked |-> TRUE, map |-> hsm_group_map]
          ELSE FilterLoop(hsm_name_vec, Tail(hsm_group_vec), hsm_group_map)

filter_and_convert_to_map(hsm_name_vec, hsm_group_vec) ==
  FilterLoop(hsm_name_vec, hsm_group_vec, [l \in {} |-> <<>>])

FilterCall(c) ==
  /\ pc[c] = "filter"
  /\ LET out == filter_and_convert_to_map(op[c].labels, op[c].listing)
     IN IF out.panicked
        THEN /\ pc' = [pc EXCEPT ![c] = "panicked"]
             /\ UNCHANGED ret
        ELSE /\ pc' = [pc EXCEPT ![c] = "done"]
             /\ ret' = [ret EXCEPT ![c] = OkRet(out.map)]
  /\ UNCHANGED <<store, reqlog, op, fs, ms>>

FilterCalls ==
  {[IdleOp EXCEPT !.name = "filter", !.labels = names, !.listing = groups] :
     names \in SeqsUpTo(Groups, MaxMixed), groups \in SeqsUpTo(GroupValues, MaxListing)}

InitFilter ==
  /\ store = FetchStore
  /\ reqlog = <<>>
  /\ \E call \in FilterCalls :
       op = [c \in Callers |-> IF c = 1 THEN call ELSE IdleOp]
  /\ pc = [c \in Callers |-> EntryPc(op[c])]
  /\ fs = [c \in Callers |-> IdleFetch]
  /\ ms = [c \in Callers |-> EntryLocals]
  /\ ret = [c \in Callers |-> NoRet]

NextFilter == \E c \in Callers : FilterCall(c)

SpecFilter == InitFilter /\ [][NextFilter]_vars

\* ------------------------------------------------------ validate_api_token

\* A token is a string, kept as the sequence of its characters.
TokenChars == {"a", "b", "."}

Tokens == SeqsUpTo(TokenChars, MaxToken)

\* str::is_empty
IsEmpty(token) == Len(token) = 0

\* if token.is_empty() { Ok(()) } else { Err(VarError::NotPresent) }
validate_api_token(token) == IF IsEmpty(token) THEN OkRet(<<>>) ELSE ErrRet

ValidateToken(c) ==
  /\ pc[c] = "validate"
  /\ pc' = [pc EXCEPT ![c] = "done"]
  /\ ret' = [ret EXCEPT ![c] = validate_api_token(op[c].token)]
  /\ UNCHANGED <<store, reqlog, op, fs, ms>>

InitToken ==
  /\ store = FetchStore
  /\ reqlog = <<>>
  /\ \E token \in Tokens :
       op = [c \in Callers |->
               IF c = 1 THEN [IdleOp EXCEPT !.name = "validate_api_token", !.token = token]
               ELSE IdleOp]
  /\ pc = [c \in Callers |-> EntryPc(op[c])]
  /\ fs = [c \in Callers |-> IdleFetch]
  /\ ms = [c \in Callers |-> EntryLocals]
  /\ ret = [c \in Callers |-> NoRet]

NextToken == \E c \in Callers : ValidateToken(c)

SpecToken == InitToken /\ [][NextToken]_vars

\* ----------------------------------------------------------------- claims

MemberSet(c) == SeqToSet(op[c].members)

\* C1: in the bulk fetch the number of tasks spawned and not yet completed
\* never exceeds the ceiling pipe_size, and a task is spawned only when a
\* permit is free, that is, below the ceiling.
C1_BoundedInFlight ==
  /\ [](\A c \in Callers : InFlight(c) <= pipe_size)
  /\ [][\A c \in Callers :
          InFlight(c)' > InFlight(c) => InFlight(c) < pipe_size /\ fs[c].sem > 0]_vars

\* The ceiling was reached, a task completed, and a further task was spawned.
C1_Witness ==
  \E c \in Callers :
    /\ op[c].name = "fetch"
    /\ fs[c].nxt > pipe_size
    /\ InFlight(c) = pipe_size

DryRunCall(c) ==
  \/ op[c].name = "migrate" /\ ~op[c].flag
  \/ op[c].name = "add" /\ op[c].flag

\* C2: a dry-run call (migrate with nodryrun = false, add with dryrun = true)
\* issues no mutating request at any point, and when it returns Ok it returns
\* the computed member list(s); it returns Err only when the validation or a
\* read failed.
C2_DryRunPurity ==
  \A c \in Callers :
    DryRunCall(c) =>
      /\ ReqsBy(c) = <<>>
      /\ pc[c] = "done" /\ op[c].name = "migrate" =>
           \/ ret[c] = OkRet(<<TargetNew(ms[c].target_read, op[c].members), ms[c].parent_vec>>)
           \/ ret[c] = ErrRet /\ (ms[c].valid = "no" \/ \E r \in BagToSet(fs[c].joined) : r.ans = "jerr")
      /\ pc[c] = "done" /\ op[c].name = "add" =>
           \/ ret[c] = OkRet(TargetNew(ms[c].target_read, op[c].members)) /\ ms[c].i = 1
           \/ ret[c] = ErrRet /\ ms[c].i = 0

\* A dry-run migration of at least one node has returned its pair.
C2_Witness ==
  \E c \in Callers :
    /\ DryRunCall(c)
    /\ op[c].name = "migrate"
    /\ op[c].members /= <<>>
    /\ pc[c] = "done"
    /\ ret[c].tag = "Ok"

\* The migration has computed both vectors.
Reconciled(c) == op[c].name = "migrate" /\ ms[c].i >= 1

\* C3: the computed pair is target_new = target_existing \cup moving and
\* parent_new = parent_existing \ target_new, as sets, where the existing
\* sets are what the two reads returned; the returned pair is that pair.
C3_MigrationState ==
  \A c \in Callers :
    Reconciled(c) =>
      /\ SeqToSet(ms[c].target_vec) = SeqToSet(ms[c].target_read) \cup MemberSet(c)
      /\ SeqToSet(ms[c].parent_vec) = SeqToSet(ms[c].parent_read) \ SeqToSet(ms[c].target_vec)
      /\ pc[c] = "done" => ret[c] = OkRet(MigratePair(c))

\* A node read in both groups and not moved is absent from parent_new.
C3_Witness ==
  \E c \in Callers :
    /\ Reconciled(c)
    /\ pc[c] = "done"
    /\ op[c].members /= <<>>
    /\ \E x \in Nodes :
         /\ Contains(ms[c].target_read, x)
         /\ Contains(ms[c].parent_read, x)
         /\ x \notin MemberSet(c)
         /\ ~Contains(ret[c].val[2], x)

\* C4: the computed pair is disjoint, every moved node is in target_new and
\* no moved node is in parent_new.
C4_MigrationDisjoint ==
  \A c \in Callers :
    Reconciled(c) =>
      /\ SeqToSet(ms[c].target_vec) \cap SeqToSet(ms[c].parent_vec) = {}
      /\ MemberSet(c) \subseteq SeqToSet(ms[c].target_vec)
      /\ MemberSet(c) \cap SeqToSet(ms[c].parent_vec) = {}

\* Moved nodes were read in the parent, and both new vectors are non-empty.
C4_Witness ==
  \E c \in Callers :
    /\ Reconciled(c)
    /\ pc[c] = "done"
    /\ op[c].members /= <<>>
    /\ MemberSet(c) \subseteq SeqToSet(ms[c].parent_read)
    /\ ms[c].target_read /= <<>>
    /\ ms[c].parent_vec /= <<>>

ScaleBag(B, n) == [e \in DOMAIN B |-> B[e] * n]

\* The members of the labels in rs, each as often as its result was joined.
RECURSIVE MembersOf(_, _)
MembersOf(rs, joined) ==
  IF rs = {} THEN EmptyBag
  ELSE LET r == CHOOSE q \in rs : TRUE
       IN ScaleBag(BagOfSeq(MemberList(store[r.label])), CopiesIn(r, joined))
            (+) MembersOf(rs \ {r}, joined)

JoinedWith(c, a) == {r \in BagToSet(fs[c].joined) : r.ans = a}

\* Every answer so far is a member list or a remote error.
OnlyRemoteErrors(c) ==
  \A r \in BagToSet(fs[c].done) \cup BagToSet(fs[c].joined) : r.ans \in {"ok", "err"}

\* C5: in the bulk fetch remote errors abort nothing: when every answer is a
\* member list or a remote error, the call does not panic, and when it has
\* ended it has returned Ok after spawning and joining a task for every label,
\* with exactly the members of the labels whose fetch succeeded.
C5_RemoteErrorsTolerated ==
  \A c \in Callers :
    op[c].name = "fetch" /\ OnlyRemoteErrors(c) =>
      /\ pc[c] /= "panicked"
      /\ pc[c] = "done" =>
           /\ ret[c].tag = "Ok"
           /\ fs[c].nxt = Len(fs[c].labels)
           /\ BagCardinality(fs[c].joined) = Len(fs[c].labels)
           /\ BagOfSeq(ret[c].val) = MembersOf(JoinedWith(c, "ok"), fs[c].joined)

\* A bulk fetch returned Ok although a fetch failed, with members of another.
C5_Witness ==
  \E c \in Callers :
    /\ op[c].name = "fetch"
    /\ pc[c] = "done"
    /\ ret[c].tag = "Ok"
    /\ JoinedWith(c, "err") /= {}
    /\ JoinedWith(c, "ok") /= {}
    /\ ret[c].val /= <<>>

RECURSIVE TotalLen(_, _)
TotalLen(rs, joined) ==
  IF rs = {} THEN 0
  ELSE LET r == CHOOSE q \in rs : TRUE
       IN Len(r.ids) * CopiesIn(r, joined) + TotalLen(rs \ {r}, joined)

C7_ValidationFailsFast ==
  \A c \in Callers :
    op[c].name = "migrate" /\ ms[c].valid = "no" =>
      /\ pc[c] = "done"
      /\ ret[c] = ErrRet
      /\ ms[c].spawned = 0
      /\ fs[c] = IdleFetch
      /\ ReqsBy(c) = <<>>

\* A well-formed node that is not a member of the parent was rejected.
C7_Witness ==
  \E c \in Callers :
    /\ op[c].name = "migrate"
    /\ op[c].flag
    /\ ms[c].valid = "no"
    /\ pc[c] = "done"
    /\ \E x \in MemberSet(c) : x \in Nodes /\ x \notin store[op[c].parent]

\* The requests of an apply run over the first n moving nodes.
RECURSIVE ApplyRequests(_, _)
ApplyRequests(c, n) ==
  IF n = 0 THEN <<>>
  ELSE ApplyRequests(c, n - 1)
         \o <<[kind |-> "post_members", group |-> op[c].target, node |-> op[c].members[n]],
              [kind |-> "delete_member", group |-> op[c].parent, node |-> op[c].members[n]]>>

Issued(c) ==
  [j \in DOMAIN ReqsBy(c) |->
     [kind |-> ReqsBy(c)[j].kind, group |-> ReqsBy(c)[j].group, node |-> ReqsBy(c)[j].node]]

\* C8: in apply mode, once both reads have returned, migrate ends with Ok and
\* the computed pair, having issued an add-to-target and a remove-from-parent
\* request for every moving node, whatever the outcomes of the requests.
C8_ApplyContinues ==
  \A c \in Callers :
    Reconciled(c) /\ op[c].flag /\ pc[c] = "done" =>
      /\ ret[c] = OkRet(MigratePair(c))
      /\ Issued(c) = ApplyRequests(c, Len(op[c].members))

\* An apply run over two nodes ended Ok although its first two requests failed.
C8_Witness ==
  \E c \in Callers :
    /\ Reconciled(c)
    /\ op[c].flag
    /\ pc[c] = "done"
    /\ ret[c].tag = "Ok"
    /\ Len(ReqsBy(c)) = 4
    /\ ~ReqsBy(c)[1].ok
    /\ ~ReqsBy(c)[2].ok

\* C9: in apply mode every remove-from-parent request comes right after the
\* completed add-to-target request for the same node, and while the remove of
\* a node is due its add is the last request issued.
C9_AddBeforeRemove ==
  \A c \in Callers :
    op[c].name = "migrate" =>
      /\ \A j \in DOMAIN ReqsBy(c) :
           ReqsBy(c)[j].kind = "delete_member" =>
             /\ j > 1
             /\ ReqsBy(c)[j - 1].kind = "post_members"
             /\ ReqsBy(c)[j - 1].node = ReqsBy(c)[j].node
             /\ ReqsBy(c)[j - 1].group = op[c].target
             /\ ReqsBy(c)[j].group = op[c].parent
      /\ pc[c] = "mig_delete" =>
           /\ ReqsBy(c) /= <<>>
           /\ ReqsBy(c)[Len(ReqsBy(c))].kind = "post_members"
           /\ ReqsBy(c)[Len(ReqsBy(c))].node = op[c].members[ms[c].i]

\* Two nodes were moved: add, remove, add, remove.
C9_Witness ==
  \E c \in Callers :
    /\ op[c].name = "migrate"
    /\ Len(ReqsBy(c)) = 4
    /\ ReqsBy(c)[4].kind = "delete_member"
    /\ ReqsBy(c)[1].node /= ReqsBy(c)[3].node

\* C10 as stated: during and after an apply run between two different groups
\* every moving node is a member of the target or of the parent in the store.
C10_NeverInNeither ==
  \A c \in Callers :
    op[c].name = "migrate" /\ op[c].flag /\ ms[c].valid = "yes"
      /\ op[c].target /= op[c].parent =>
        \A x \in MemberSet(c) : x \in store[op[c].target] \cup store[op[c].parent]

\* C11: after an apply run between two different groups in which every request
\* succeeded, every moving node is a member of the target group and not a
\* member of the parent group in the store.
C11_MovedAfterCleanApply ==
  \A c \in Callers :
    /\ Reconciled(c)
    /\ op[c].flag
    /\ pc[c] = "done"
    /\ op[c].target /= op[c].parent
    /\ AllOk(ReqsBy(c))
    => \A x \in MemberSet(c) : x \in store[op[c].target] /\ x \notin store[op[c].parent]

\* Two nodes were moved with four successful requests.
C11_Witness ==
  \E c \in Callers :
    /\ Reconciled(c)
    /\ op[c].flag
    /\ pc[c] = "done"
    /\ op[c].target /= op[c].parent
    /\ AllOk(ReqsBy(c))
    /\ Len(ReqsBy(c)) = 4
    /\ Cardinality(MemberSet(c)) = 2

\* C12: the pair migrate returns is a function of its arguments and of what
\* the two reads returned alone: it is the same in dry-run and in apply mode
\* and whatever the outcomes of the add and remove requests, and a call that
\* got past both reads returns Ok in either mode.
C12_PairIndependentOfMode ==
  \A c \in Callers :
    op[c].name = "migrate" /\ pc[c] = "done" =>
      LET target_new == SeqToSet(ms[c].target_read) \cup MemberSet(c)
          parent_new == SeqToSet(ms[c].parent_read) \ target_new
      IN /\ Reconciled(c) => ret[c].tag = "Ok"
         /\ ret[c].tag = "Ok" =>
              ret[c].val = <<SetToSortedSeq(target_new), SetToSortedSeq(parent_new)>>

\* An apply run returned its pair although a request failed and the store
\* differs from the pair.
C12_Witness ==
  \E c \in Callers :
    /\ op[c].name = "migrate"
    /\ op[c].flag
    /\ pc[c] = "done"
    /\ ret[c].tag = "Ok"
    /\ ~AllOk(ReqsBy(c))
    /\ ret[c].val[1] /= MemberList(store[op[c].target])

\* Caller 1 made an apply-mode call of the given name and it ended cleanly.
CleanApply(name) ==
  /\ op[1].name = name
  /\ op[1].flag = (name = "migrate")
  /\ CleanRun(1)

\* C13 as stated: a second migrate call (apply) with the same arguments, after
\* a first one in which every request succeeded, returns the same pair as the
\* first and leaves the store unchanged.
C13_RerunSamePair ==
  CleanApply("migrate") /\ pc[2] = "done" =>
    /\ ret[2] = ret[1]
    /\ store = ms[2].store0

\* C13 (amended): a second migrate call (apply) with the same non-empty moving
\* nodes, after a first one in which every request succeeded, is rejected by
\* the validation: it returns an error, spawns no fetch, issues no request and
\* leaves the store unchanged.
C13_RerunRejected ==
  CleanApply("migrate") /\ op[1].members /= <<>> /\ pc[2] /= "waiting" =>
    /\ pc[2] \in {"mig_validate", "done"}
    /\ pc[2] = "done" => ret[2] = ErrRet /\ ms[2].valid = "no"
    /\ ms[2].spawned = 0
    /\ ReqsBy(2) = <<>>
    /\ store = ms[2].store0

\* The second call after a clean move of two nodes between two groups ended.
C13_Witness ==
  /\ CleanApply("migrate")
  /\ Cardinality(MemberSet(1)) = 2
  /\ op[1].target /= op[1].parent
  /\ ret[1].val[2] /= <<>>
  /\ pc[2] = "done"

\* C14: two add_hsm_members calls in sequence (dryrun = false) with the same
\* group and members, every request succeeding: both return the same list,
\* the old members merged with the new ones, and the second call leaves the
\* store as the first left it.
C14_AddTwice ==
  CleanApply("add") /\ CleanRun(2) =>
    /\ ret[2] = ret[1]
    /\ ret[1].val = SetToSortedSeq(ms[1].store0[op[1].target] \cup MemberSet(1))
    /\ store = ms[2].store0
    /\ store[op[1].target] = ms[1].store0[op[1].target] \cup MemberSet(1)

\* Both calls ended cleanly, and the first one added a node to a non-empty group.
C14_Witness ==
  /\ CleanApply("add")
  /\ CleanRun(2)
  /\ Len(ReqsBy(2)) = 2
  /\ ms[1].store0[op[1].target] /= {}
  /\ ~(MemberSet(1) \subseteq ms[1].store0[op[1].target])

StrictlyAscending(s) == \A i \in 1..(Len(s) - 1) : Rank(s[i]) < Rank(s[i + 1])

\* The call has folded the additions into the members it read.
TargetMerged(c) ==
  \/ op[c].name = "add" /\ ms[c].i >= 1
  \/ op[c].name = "migrate" /\ fs[c].ctx = "parent"

\* C15: the merged member list of add_hsm_members and of the target step of
\* migrate_hsm_members is sorted ascending, holds no element twice and holds
\* exactly the elements of the members read and of the additions.
C15_MergeNormalized ==
  \A c \in Callers :
    TargetMerged(c) =>
      /\ StrictlyAscending(ms[c].target_vec)
      /\ SeqToSet(ms[c].target_vec) = SeqToSet(ms[c].target_read) \cup MemberSet(c)

\* The additions repeat an element that is also among the members read.
C15_Witness ==
  \E c \in Callers :
    /\ TargetMerged(c)
    /\ Len(op[c].members) = 2
    /\ op[c].members[1] = op[c].members[2]
    /\ Contains(ms[c].target_read, op[c].members[1])
    /\ Len(ms[c].target_read) >= 2
    /\ Len(ms[c].target_vec) = Len(ms[c].target_read)

\* C16: a join error ends the bulk fetch as a whole: the call has returned an
\* error that carries no member list, nothing is left in the JoinSet, and no
\* further result is taken afterwards.
C16_JoinErrorAborts ==
  /\ [](\A c \in Callers :
          op[c].name = "fetch" /\ JoinedWith(c, "jerr") /= {} =>
            /\ pc[c] = "done"
            /\ ret[c] = ErrRet
            /\ JoinSetEmpty(c))
  /\ [][\A c \in Callers :
          op[c].name = "fetch" /\ JoinedWith(c, "jerr") /= {} =>
            fs'[c] = fs[c] /\ ret'[c] = ret[c]]_vars

\* The fetch was aborted with members already collected and results not taken.
C16_Witness ==
  \E c \in Callers :
    /\ op[c].name = "fetch"
    /\ JoinedWith(c, "jerr") /= {}
    /\ fs[c].vec /= <<>>
    /\ BagCardinality(fs[c].joined) + 2 <= Len(fs[c].labels)
    /\ ret[c] = ErrRet

\* C17: a failed read is never treated as an empty group: when the fetch of
\* the parent group failed at the remote service, the migration neither
\* computes the two member lists from it nor issues an add or remove request.
C17_FailedReadStopsMigrate ==
  \A c \in Callers :
    op[c].name = "migrate" /\ fs[c].ctx = "parent" /\ JoinedWith(c, "err") /= {} =>
      /\ ~Reconciled(c)
      /\ ReqsBy(c) = <<>>

\* C18: a migration requested through Ochami::migrate_group_members, whose
\* parameters carry no apply request, issues no post_members and no
\* delete_member request.
C18_BackendMigrateIsDryRun ==
  \A c \in Callers : op[c].name = "migrate" => ReqsBy(c) = <<>>

\* The retain step of update_hsm_group_members has run.
RetainDone(c) == op[c].name = "update" /\ ms[c].i >= 1

\* C19: the members retained by the retain step of update_hsm_group_members
\* are exactly the current members that are not in the list to delete.
C19_RetainedIsDifference ==
  \A c \in Callers :
    RetainDone(c) =>
      SeqToSet(ms[c].retained) = SeqToSet(ms[c].target_read) \ SeqToSet(op[c].remove)

\* C20: when update_hsm_group_members has returned Ok, the group in the store
\* holds every id of the list to add and no id of the list to delete that is
\* not also in the list to add.
C20_UpdateOkUpdatesStore ==
  \A c \in Callers :
    op[c].name = "update" /\ pc[c] = "done" /\ ret[c].tag = "Ok" =>
      /\ MemberSet(c) \subseteq store[op[c].target]
      /\ (SeqToSet(op[c].remove) \ MemberSet(c)) \cap store[op[c].target] = {}

\* Labels of the groups of a listing, and the groups of a listing with a label.
ListingLabels(listing) == {listing[i].label : i \in 1..Len(listing)}

GroupsLabelled(listing, l) == {listing[i] : i \in {j \in 1..Len(listing) : listing[j].label = l}}

\* C21: filter_and_convert_to_map fails on no input and returns a mapping
\* whose keys are exactly the wanted labels that occur in the listing, each
\* mapped to the member ids of a group of that label (the empty list when the
\* group has no members).
C21_FilterTotalAndExact ==
  \A c \in Callers :
    op[c].name = "filter" /\ pc[c] /= "filter" =>
      /\ pc[c] = "done"
      /\ ret[c].tag = "Ok"
      /\ DOMAIN ret[c].val = SeqToSet(op[c].labels) \cap ListingLabels(op[c].listing)
      /\ \A l \in DOMAIN ret[c].val :
           \E g \in GroupsLabelled(op[c].listing, l) : ret[c].val[l] = MemberIds(g)

\* C22: the bulk member fetch leaves the store as it was at its start and
\* issues no mutating request, on every path: while it runs, after a partial
\* failure, after an abort and after its return.
C22_FetchReadOnly ==
  \A c \in Callers :
    op[c].name = "fetch" =>
      /\ store = ms[c].store0
      /\ ReqsBy(c) = <<>>

\* The fetch was aborted by a join error after a remote error and after
\* members of another group had been collected.
C22_Witness ==
  \E c \in Callers :
    /\ op[c].name = "fetch"
    /\ pc[c] = "done"
    /\ ret[c] = ErrRet
    /\ JoinedWith(c, "err") /= {}
    /\ JoinedWith(c, "ok") /= {}
    /\ store = ms[c].store0

\* The bulk fetch call has ended: it returned or it panicked.
FetchEnded(c) == op[c].name = "fetch" => pc[c] \in {"done", "panicked"}

\* C23: the bulk fetch returns also when remote calls never answer: a task
\* whose call hangs ends in the end and gives its permit back.
C23_HungFetchReturns == <>(\A c \in Callers : FetchEnded(c))

\* The members of the listed groups, one group after the other in the order
\* of the label list: what the fetch returns when its tasks complete in order.
RECURSIVE MembersInLabelOrder(_)
MembersInLabelOrder(labels) ==
  IF labels = <<>> THEN <<>>
  ELSE MemberList(store[Head(labels)]) \o MembersInLabelOrder(Tail(labels))

\* Every task of the call was joined with the members of its group.
AllAnswered(c) ==
  /\ JoinedWith(c, "ok") = BagToSet(fs[c].joined)
  /\ BagCardinality(fs[c].joined) = Len(fs[c].labels)

\* C24: for a fixed label list and fixed remote answers the bulk fetch returns
\* the same value whatever the order in which its tasks complete, that is,
\* the value it returns when they complete in the order of the label list.
C24_CompletionOrderIrrelevant ==
  \A c \in Callers :
    op[c].name = "fetch" /\ pc[c] = "done" /\ ret[c].tag = "Ok" /\ AllAnswered(c) =>
      ret[c].val = MembersInLabelOrder(op[c].labels)

\* C25: the member list returned by the bulk fetch holds no node id twice.
C25_FetchResultNoDuplicates ==
  \A c \in Callers :
    op[c].name = "fetch" /\ pc[c] = "done" /\ ret[c].tag = "Ok" =>
      Cardinality(SeqToSet(ret[c].val)) = Len(ret[c].val)

\* C26: a migration invents no node id: each of its requests is for a moving
\* node that the validation found well-formed and a member of the parent
\* group, adds go to the target group and removes to the parent group, and the
\* computed lists hold no id beyond the members of the target group and the
\* moving nodes (target_new) and the members of the parent group (parent_new).
C26_NoInventedIds ==
  \A c \in Callers :
    op[c].name = "migrate" =>
      /\ \A j \in DOMAIN reqlog :
           reqlog[j].caller = c =>
             /\ ms[c].valid = "yes"
             /\ reqlog[j].node \in MemberSet(c) \cap Nodes
             /\ reqlog[j].node \in ms[c].store0[op[c].parent]
             /\ reqlog[j].kind \in {"post_members", "delete_member"}
             /\ reqlog[j].kind = "post_members" => reqlog[j].group = op[c].target
             /\ reqlog[j].kind = "delete_member" => reqlog[j].group = op[c].parent
      /\ Reconciled(c) =>
           /\ SeqToSet(ms[c].target_vec) \subseteq ms[c].store0[op[c].target] \cup MemberSet(c)
           /\ SeqToSet(ms[c].parent_vec) \subseteq ms[c].store0[op[c].parent]

\* An apply run moved two nodes into a group that had members and left a
\* member in the parent.
C26_Witness ==
  \E c \in Callers :
    /\ Reconciled(c)
    /\ pc[c] = "done"
    /\ Len(ReqsBy(c)) = 4
    /\ Cardinality(MemberSet(c)) = 2
    /\ ms[c].target_read /= <<>>
    /\ ms[c].parent_vec /= <<>>

\* The phase of a migrate call.  The merge and the subtraction (Reconciling)
\* are local computations that end the two reads.
Phase(c) ==
  CASE pc[c] = "mig_validate" -> "Validating"
    [] pc[c] \in {"spawn", "join"} -> "Reading"
    [] pc[c] = "mig_report" -> "Reporting"
    [] pc[c] \in {"mig_post", "mig_delete"} -> "Applying"
    [] OTHER -> "Done"

PhaseOrder ==
  {<<"Validating", "Reading">>, <<"Validating", "Done">>,
   <<"Reading", "Reading">>, <<"Reading", "Reporting">>, <<"Reading", "Applying">>,
   <<"Reading", "Done">>, <<"Reporting", "Done">>,
   <<"Applying", "Applying">>, <<"Applying", "Done">>}

\* Both reads of the call have returned Ok.
BothReadsDone(c) == fs[c].ctx = "parent" /\ JoinSetEmpty(c) /\ Reconciled(c)

\* C27: a migrate call goes from Validating to Reading, then to exactly one
\* of Reporting and Applying, then to Done, or to Done early on an error; it
\* issues a request only while Applying or after it, with the validation
\* passed and both reads returned; a join error in either read ends the call
\* with an error and without any request.
C27_PhaseOrder ==
  /\ [][\A c \in Callers :
          op[c].name = "migrate" /\ pc'[c] /= pc[c] => <<Phase(c), Phase(c)'>> \in PhaseOrder]_vars
  /\ [](\A c \in Callers :
          op[c].name = "migrate" =>
            /\ ReqsBy(c) /= <<>> =>
                 /\ ms[c].valid = "yes"
                 /\ BothReadsDone(c)
                 /\ op[c].flag
                 /\ Phase(c) \in {"Applying", "Done"}
            /\ Phase(c) \in {"Reporting", "Applying"} => ms[c].valid = "yes" /\ BothReadsDone(c)
            /\ Phase(c) = "Reporting" => ~op[c].flag
            /\ JoinedWith(c, "jerr") /= {} =>
                 pc[c] = "done" /\ ret[c] = ErrRet /\ ReqsBy(c) = <<>>)

\* An apply run went through every phase and ended after its requests.
C27_Witness ==
  \E c \in Callers :
    /\ op[c].name = "migrate"
    /\ pc[c] = "done"
    /\ ret[c].tag = "Ok"
    /\ BothReadsDone(c)
    /\ Len(ReqsBy(c)) = 2

\* C28: after add_hsm_members with dryrun = false the returned list is the
\* membership of the group in the store, whatever the outcomes of the
\* post_members requests.
C28_AddReturnsStoreMembers ==
  \A c \in Callers :
    op[c].name = "add" /\ ~op[c].flag /\ pc[c] = "done" /\ ret[c].tag = "Ok" =>
      ret[c].val = MemberList(store[op[c].target])

\* Every task spawned by the call is running, waits to be joined, or was joined.
TasksOf(c) == BagCardinality(fs[c].running) + BagCardinality(fs[c].done) + BagCardinality(fs[c].joined)

\* C29: when every remote call returns in the end, the bulk fetch ends for
\* every label list; it has then spawned one remote fetch for each entry of
\* the list; and while it runs the permits out and the tasks running add up to
\* the ceiling, so that a spawn that waits for a permit waits for a running task.
C29_FetchTerminates ==
  /\ <>(\A c \in Callers : FetchEnded(c))
  /\ [](\A c \in Callers :
          op[c].name = "fetch" =>
            /\ pc[c] \in {"done", "panicked"} => ms[c].spawned = Len(op[c].labels)
            /\ pc[c] \in {"spawn", "join"} =>
                 /\ fs[c].sem + InFlight(c) = pipe_size
                 /\ TasksOf(c) = ms[c].spawned
                 /\ ms[c].spawned = fs[c].nxt
                 /\ fs[c].running (+) BagOfSeq(SubSeq(fs[c].labels, fs[c].nxt + 1, Len(fs[c].labels)))
                      \sqsubseteq BagOfSeq(fs[c].labels))

\* A fetch over more labels than the ceiling returned Ok.
C29_Witness ==
  \E c \in Callers :
    /\ op[c].name = "fetch"
    /\ Len(op[c].labels) > pipe_size
    /\ pc[c] = "done"
    /\ ret[c].tag = "Ok"
    /\ ms[c].spawned = Len(op[c].labels)

\* C30: after an apply run between two groups in which every request
\* succeeded and both reads returned the groups' members, the target group in
\* the store is target_new and the parent group in the store is parent_new.
C30_PairIsStoreOutcome ==
  \A c \in Callers :
    Reconciled(c) /\ op[c].flag /\ op[c].target /= op[c].parent /\ CleanRun(c) =>
      /\ store[op[c].target] = SeqToSet(ms[c].target_vec)
      /\ store[op[c].parent] = SeqToSet(ms[c].parent_vec)

\* Both calls have returned Ok and every request of either succeeded.
BothApplied ==
  /\ \A c \in Callers : op[c].name = "migrate" /\ op[c].flag /\ pc[c] = "done" /\ ret[c].tag = "Ok"
  /\ AllOk(reqlog)

\* C31: two apply runs at the same time between the same groups with moving
\* nodes that no run shares do not undo each other: a request changes the
\* membership of its own node in its own group only, and when both runs have
\* returned with every request succeeded, every moving node of either run is
\* in the target group and not in the parent group.
C31_ConcurrentMovesKept ==
  /\ [](BothApplied =>
          \A c \in Callers : \A x \in MemberSet(c) :
            x \in store[op[c].target] /\ x \notin store[op[c].parent])
  /\ [][reqlog' /= reqlog =>
          LET r == reqlog'[Len(reqlog')]
          IN \A g \in Groups :
               (store'[g] \ store[g]) \cup (store[g] \ store'[g])
                 \subseteq IF g = r.group THEN {r.node} ELSE {}]_vars

\* The requests of the two runs alternated, and the second run had read the
\* target group before the first run added its node to it.
C31_Witness ==
  /\ BothApplied
  /\ Len(reqlog) >= 4
  /\ reqlog[1].caller = 1
  /\ reqlog[2].caller = 2
  /\ reqlog[3].caller = 1
  /\ \E x \in MemberSet(1) : ~Contains(ms[2].target_vec, x) /\ x \in store[op[2].target]

\* C32: an apply run whose parent group is its target group loses no member:
\* with every request succeeded, every moving node is still a member of the
\* group, and both returned lists are the group's members in the store.
C32_SameGroupKeepsMembers ==
  \A c \in Callers :
    Reconciled(c) /\ op[c].flag /\ op[c].target = op[c].parent /\ CleanRun(c) =>
      /\ MemberSet(c) \subseteq store[op[c].target]
      /\ ms[c].target_vec = MemberList(store[op[c].target])
      /\ ms[c].parent_vec = MemberList(store[op[c].target])

\* C33: Ochami::add_members_to_group adds the members in order and stops at
\* the first add that fails, returning an error: the adds issued are those of
\* a prefix of new_members, only the last of them can have failed, the
\* members added before it are in the group and no later member is tried;
\* when every add succeeded it returns the list the last add produced, and for
\* no members it issues no request and returns the empty list.
C33_AddMembersStopsAtFailure ==
  \A c \in Callers :
    op[c].name = "add_members" =>
      LET reqs == ReqsBy(c)
          n == Len(reqs)
      IN /\ n <= Len(op[c].members)
         /\ \A j \in 1..n :
              /\ reqs[j].node = op[c].members[j]
              /\ reqs[j].group = op[c].target
              /\ reqs[j].kind = "add_member"
              /\ j < n => reqs[j].ok
              /\ reqs[j].ok => reqs[j].node \in store[op[c].target]
         /\ (n > 0 /\ ~reqs[n].ok) <=> (pc[c] = "done" /\ ret[c] = ErrRet)
         /\ pc[c] = "done" /\ ret[c].tag = "Ok" =>
              /\ n = Len(op[c].members)
              /\ ret[c].val = IF n = 0 THEN <<>> ELSE MemberList(store[op[c].target])

\* The first of two adds succeeded and the second failed.
C33_Witness ==
  \E c \in Callers :
    /\ op[c].name = "add_members"
    /\ Len(op[c].members) = 2
    /\ op[c].members[2] \in Nodes
    /\ Len(ReqsBy(c)) = 2
    /\ ReqsBy(c)[1].ok
    /\ ~ReqsBy(c)[2].ok
    /\ ret[c] = ErrRet
    /\ op[c].members[1] \in store[op[c].target]
    /\ op[c].members[1] \notin ms[c].store0[op[c].target]

\* C34: when the get_members read of add_hsm_members fails, the call returns
\* the error, has issued no request and has left the store as it was, in
\* dry-run and in apply mode; a call that goes on past the read has the
\* members the group had, never an empty list in place of a failed read.
C34_AddReadFailureReturned ==
  \A c \in Callers :
    op[c].name = "add" =>
      /\ ret[c] = ErrRet =>
           /\ pc[c] = "done"
           /\ ms[c].i = 0
           /\ ReqsBy(c) = <<>>
           /\ store = ms[c].store0
      /\ ms[c].i >= 1 => ms[c].target_read = MemberList(ms[c].store0[op[c].target])
      /\ ReqsBy(c) /= <<>> => ms[c].i >= 1 /\ ~op[c].flag

\* An apply call for a new member of a group with members ended on the read.
C34_Witness ==
  \E c \in Callers :
    /\ op[c].name = "add"
    /\ ~op[c].flag
    /\ ret[c] = ErrRet
    /\ store[op[c].target] /= {}
    /\ \E x \in MemberSet(c) : x \in Nodes /\ x \notin store[op[c].target]

\* C35: in the bulk fetch a successful answer without data (no group, no
\* member list, no ids) does not abort the caller: the call does not panic.
C35_NoDataTolerated ==
  \A c \in Callers :
    op[c].name = "fetch" /\ JoinedWith(c, "nodata") /= {} => pc[c] /= "panicked"

\* C36: validate_api_token returns Ok for every token that is not empty and
\* an error for the empty token.
C36_TokenOkIffNotEmpty ==
  \A c \in Callers :
    op[c].name = "validate_api_token" /\ pc[c] = "done" =>
      (ret[c].tag = "Ok" <=> op[c].token /= <<>>)

====
